---- MODULE Spec2Model ----
(***************************************************************************)
(* State-machine model of WebsiteAnalyzerAgent                              *)
(* (src/backend/agents/website_analyzer_agent.py): the orchestrator        *)
(* analyze_website, its four probes, the PageSpeed score functions and the *)
(* two-tier recommendation generator.                                      *)
(*                                                                         *)
(* Python values are modelled as follows.                                  *)
(*   dict            a function whose DOMAIN is the set of keys            *)
(*   {}              EmptyDict                                             *)
(*   float fraction  PyNum(m), m the fraction in thousandths (0.896 = 896) *)
(*   None            PyNone                                                *)
(*   raise E         Raise(E); a normal return of v is Ret(v)              *)
(*   str.lower/strip tables PyLower, PyStrip over the titles of the model  *)
(* Keys of the probe dicts that no branch of the code reads (headings,     *)
(* links, readability, security headers, ...) and the free text of the     *)
(* 'description' of a recommendation are left out of the records.          *)
(***************************************************************************)
EXTENDS Integers, Sequences, FiniteSets, TLC

----------------------------------------------------------------------------
(* Python helpers *)

EmptyDict == [k \in {} |-> 0]

Has(d, k) == k \in DOMAIN d

\* dict.get(k, default)
Get(d, k, dflt) == IF k \in DOMAIN d THEN d[k] ELSE dflt

PyNone == [py |-> "None"]

PyNum(m) == [py |-> "float", milli |-> m]

IsNone(v) == v.py = "None"

Raise(e) == [exc |-> e]

Ret(v) == [ret |-> v]

Raised(x) == "exc" \in DOMAIN x

\* seq[:n]
Take(s, n) == IF Len(s) <= n THEN s ELSE SubSeq(s, 1, n)

----------------------------------------------------------------------------
(* Score functions, lines 966-1000 *)

\* Fractions m/1000 for which the double product (m/1000) * 100 falls just
\* below the integer m/10, so that int() truncates to m/10 - 1
\* (0.29 * 100 = 28.999999999999996), for 0 <= m <= 2000.
FloatShort == {290, 570, 580, 1130, 1140, 1150, 1160}

\* int(x * 100) on a non-negative double x = m/1000: truncation, no rounding
\* and no clamp.
IntTimes100(m) == IF m \in FloatShort THEN (m \div 10) - 1 ELSE m \div 10

\* scores.get(key, {}).get('score', 0) followed by int(score * 100); a None
\* score makes None * 100 raise TypeError.
ScoreFromCategory(performance_analysis, key) ==
    IF Has(performance_analysis, "error") THEN Ret(0)
    ELSE LET scores == Get(performance_analysis, "scores", EmptyDict)
             score  == Get(Get(scores, key, EmptyDict), "score", PyNum(0))
         IN  IF IsNone(score) THEN Raise("TypeError")
             ELSE Ret(IntTimes100(score.milli))

\* Mutant: no test of 'error', and a default of 1 for a missing score.
_calculate_performance_score_default_one(performance_analysis) ==
    LET scores == Get(performance_analysis, "scores", EmptyDict)
        score  == Get(Get(scores, "performance", EmptyDict), "score", PyNum(1000))
    IN  IF IsNone(score) THEN Raise("TypeError")
        ELSE Ret(IntTimes100(score.milli))

_calculate_performance_score(performance_analysis) ==
    ScoreFromCategory(performance_analysis, "performance")

_calculate_seo_score_from_pagespeed(performance_analysis) ==
    ScoreFromCategory(performance_analysis, "seo")

_calculate_accessibility_score_from_pagespeed(performance_analysis) ==
    ScoreFromCategory(performance_analysis, "accessibility")

_calculate_best_practices_score_from_pagespeed(performance_analysis) ==
    ScoreFromCategory(performance_analysis, "best-practices")

\* The four calls in the order of lines 82-85 (and 666-669, 844-847): the first
\* one that raises ends the sequence.
FourScores(performance_analysis) ==
    LET s == _calculate_seo_score_from_pagespeed(performance_analysis)
        p == _calculate_performance_score(performance_analysis)
        a == _calculate_accessibility_score_from_pagespeed(performance_analysis)
        b == _calculate_best_practices_score_from_pagespeed(performance_analysis)
    IN  IF Raised(s) THEN s
        ELSE IF Raised(p) THEN p
        ELSE IF Raised(a) THEN a
        ELSE IF Raised(b) THEN b
        ELSE Ret([seo |-> s.ret, performance |-> p.ret,
                  accessibility |-> a.ret, best_practices |-> b.ret])

----------------------------------------------------------------------------
(* Recommendations: deterministic path, lines 838-933 *)

Rec(category, title, impact) ==
    [category |-> category, title |-> title, impact |-> impact]

\* Mutant: a sort that is not stable, an element goes before the elements of
\* equal score already placed.
RECURSIVE InsertByScore_unstable(_, _)
InsertByScore_unstable(sorted, item) ==
    IF sorted = <<>> THEN <<item>>
    ELSE IF Head(sorted).score < item.score
         THEN <<Head(sorted)>> \o InsertByScore_unstable(Tail(sorted), item)
         ELSE <<item>> \o sorted

\* list.sort(key=lambda x: x[1]) is stable: an element goes after every
\* element already placed whose score is less than or equal to its own.
RECURSIVE InsertByScore(_, _)
InsertByScore(sorted, item) ==
    IF sorted = <<>> THEN <<item>>
    ELSE IF Head(sorted).score <= item.score
         THEN <<Head(sorted)>> \o InsertByScore(Tail(sorted), item)
         ELSE <<item>> \o sorted

RECURSIVE SortByScore(_)
SortByScore(s) ==
    IF s = <<>> THEN <<>>
    ELSE InsertByScore(SortByScore(SubSeq(s, 1, Len(s) - 1)), s[Len(s)])

\* Mutant: a score of exactly 90 counts as weak.
WeakAreas_ninety_included(scores) ==
    LET score_list == << [category |-> "SEO", score |-> scores.seo],
                         [category |-> "Performance", score |-> scores.performance],
                         [category |-> "Accessibility", score |-> scores.accessibility],
                         [category |-> "Best Practices", score |-> scores.best_practices] >>
        IsWeak(item) == item.score <= 90
    IN  SortByScore(SelectSeq(score_list, IsWeak))

\* Lines 850-859: the four (category, score) pairs in enumeration order, those
\* with score < 90 kept, sorted by score.
WeakAreas(scores) ==
    LET score_list == << [category |-> "SEO", score |-> scores.seo],
                         [category |-> "Performance", score |-> scores.performance],
                         [category |-> "Accessibility", score |-> scores.accessibility],
                         [category |-> "Best Practices", score |-> scores.best_practices] >>
        IsWeak(item) == item.score < 90
    IN  SortByScore(SelectSeq(score_list, IsWeak))

\* Mutant: the three tests as independent ifs, each appending.
SeoBranch_independent_ifs(seo_analysis) ==
    (IF Get(Get(seo_analysis, "title", EmptyDict), "length", 0) < 30
     THEN << Rec("SEO", "Improve Your Page Title", "High") >> ELSE << >>)
    \o (IF Get(Get(seo_analysis, "meta_description", EmptyDict), "text", "") = ""
        THEN << Rec("SEO", "Add a Page Description", "High") >> ELSE << >>)
    \o (IF Get(Get(seo_analysis, "images", EmptyDict), "alt_coverage", 1000) < 800
        THEN << Rec("SEO", "Add Descriptions to Your Images", "Medium") >> ELSE << >>)

\* Lines 863-884: the SEO branch, first matching condition wins, possibly none.
SeoBranch(seo_analysis) ==
    IF Get(Get(seo_analysis, "title", EmptyDict), "length", 0) < 30
    THEN << Rec("SEO", "Improve Your Page Title", "High") >>
    ELSE IF Get(Get(seo_analysis, "meta_description", EmptyDict), "text", "") = ""
    THEN << Rec("SEO", "Add a Page Description", "High") >>
    ELSE IF Get(Get(seo_analysis, "images", EmptyDict), "alt_coverage", 1000) < 800
    THEN << Rec("SEO", "Add Descriptions to Your Images", "Medium") >>
    ELSE << >>

\* Mutant: the LCP test with >= in place of >.
PerformanceBranch_lcp_at_threshold(performance_analysis) ==
    LET perf_score_value ==
            Get(Get(Get(performance_analysis, "scores", EmptyDict),
                    "performance", EmptyDict), "score", PyNum(0))
        lcp_value ==
            Get(Get(Get(performance_analysis, "core_web_vitals", EmptyDict),
                    "lcp", EmptyDict), "value", 0)
    IN  IF lcp_value >= 2500
        THEN << Rec("Performance", "Speed Up Your Website Loading", "High") >>
        ELSE IF perf_score_value.milli < 700
        THEN << Rec("Performance", "Improve Your Website Speed", "High") >>
        ELSE << >>

\* Lines 886-903: the Performance branch; the LCP test comes first.
PerformanceBranch(performance_analysis) ==
    LET perf_score_value ==
            Get(Get(Get(performance_analysis, "scores", EmptyDict),
                    "performance", EmptyDict), "score", PyNum(0))
        lcp_value ==
            Get(Get(Get(performance_analysis, "core_web_vitals", EmptyDict),
                    "lcp", EmptyDict), "value", 0)
    IN  IF lcp_value > 2500
        THEN << Rec("Performance", "Speed Up Your Website Loading", "High") >>
        ELSE IF perf_score_value.milli < 700
        THEN << Rec("Performance", "Improve Your Website Speed", "High") >>
        ELSE << >>

\* Lines 913-927: the Best Practices branch.
BestPracticesBranch(technical_analysis) ==
    IF ~Get(Get(technical_analysis, "ssl", EmptyDict), "has_ssl", FALSE)
    THEN << Rec("Best Practices", "Enable Secure Connection (HTTPS)", "High") >>
    ELSE << Rec("Best Practices", "Improve Website Security", "Medium") >>

\* One pass of the loop body of lines 862-927 for one weak area.
CategoryBranch(category, seo_analysis, performance_analysis, technical_analysis) ==
    CASE category = "SEO" -> SeoBranch(seo_analysis)
      [] category = "Performance" -> PerformanceBranch(performance_analysis)
      [] category = "Accessibility" ->
            << Rec("Accessibility", "Improve Website Accessibility", "Medium") >>
      [] category = "Best Practices" -> BestPracticesBranch(technical_analysis)

\* The loop of lines 862-930 over score_list[:3], with its break.
RECURSIVE BasicLoop(_, _, _, _, _)
BasicLoop(areas, recommendations, seo_analysis, performance_analysis, technical_analysis) ==
    IF areas = <<>> THEN recommendations
    ELSE LET next == recommendations \o
                     CategoryBranch(Head(areas).category, seo_analysis,
                                    performance_analysis, technical_analysis)
         IN  IF Len(next) >= 3 THEN next
             ELSE BasicLoop(Tail(areas), next, seo_analysis,
                            performance_analysis, technical_analysis)

\* Lines 838-933. The score functions are called first and are not guarded:
\* a TypeError of theirs leaves the function.
_generate_basic_recommendations(seo_analysis, performance_analysis, content_analysis, technical_analysis) ==
    LET four == FourScores(performance_analysis)
    IN  IF Raised(four) THEN four
        ELSE Ret(Take(BasicLoop(Take(WeakAreas(four.ret), 3), <<>>, seo_analysis,
                                performance_analysis, technical_analysis), 3))

----------------------------------------------------------------------------
(* Recommendations: LLM path, lines 658-836 *)

\* str.lower() on the titles of the model.
PyLower ==
       "Fix Images" :> "fix images"
    @@ " fix images " :> " fix images "
    @@ "Go Fast" :> "go fast"
    @@ "Add Alt" :> "add alt"
    @@ "Use CDN" :> "use cdn"
    @@ "  " :> "  "
    @@ "" :> ""
    @@ "Improve Your Page Title" :> "improve your page title"
    @@ "Add a Page Description" :> "add a page description"
    @@ "Add Descriptions to Your Images" :> "add descriptions to your images"
    @@ "Speed Up Your Website Loading" :> "speed up your website loading"
    @@ "Improve Your Website Speed" :> "improve your website speed"
    @@ "Improve Website Accessibility" :> "improve website accessibility"
    @@ "Enable Secure Connection (HTTPS)" :> "enable secure connection (https)"
    @@ "Improve Website Security" :> "improve website security"

\* str.strip() on the lower-cased titles of the model.
PyStrip ==
       "" :> ""
    @@ "  " :> ""
    @@ " fix images " :> "fix images"
    @@ "fix images" :> "fix images"
    @@ "go fast" :> "go fast"
    @@ "add alt" :> "add alt"
    @@ "use cdn" :> "use cdn"
    @@ "improve your page title" :> "improve your page title"
    @@ "add a page description" :> "add a page description"
    @@ "add descriptions to your images" :> "add descriptions to your images"
    @@ "speed up your website loading" :> "speed up your website loading"
    @@ "improve your website speed" :> "improve your website speed"
    @@ "improve website accessibility" :> "improve website accessibility"
    @@ "enable secure connection (https)" :> "enable secure connection (https)"
    @@ "improve website security" :> "improve website security"

\* title.lower().strip(), line 820
NormTitle(title) == PyStrip[PyLower[title]]

\* A JSON value that is not an object (a string item of the array).
PyStr == [py |-> "str"]

IsDict(v) == ~Has(v, "py")

\* Mutant: the loop without the test against seen_titles.
RECURSIVE DedupLoop_ignoring_seen(_, _, _)
DedupLoop_ignoring_seen(recommendations, seen_titles, unique_recommendations) ==
    IF recommendations = <<>> THEN Ret(unique_recommendations)
    ELSE LET rec == Head(recommendations)
         IN  IF ~IsDict(rec) THEN Raise("AttributeError")
             ELSE LET title == NormTitle(Get(rec, "title", ""))
                      uniq  == IF title # "" THEN Append(unique_recommendations, rec)
                               ELSE unique_recommendations
                  IN  IF Len(uniq) >= 3 THEN Ret(uniq)
                      ELSE DedupLoop_ignoring_seen(Tail(recommendations), seen_titles, uniq)

\* Mutant: the loop without the test that the title is not empty.
RECURSIVE DedupLoop_keeping_blank(_, _, _)
DedupLoop_keeping_blank(recommendations, seen_titles, unique_recommendations) ==
    IF recommendations = <<>> THEN Ret(unique_recommendations)
    ELSE LET rec == Head(recommendations)
         IN  IF ~IsDict(rec) THEN Raise("AttributeError")
             ELSE LET title == NormTitle(Get(rec, "title", ""))
                      keep  == title \notin seen_titles
                      seen  == IF keep THEN seen_titles \cup {title} ELSE seen_titles
                      uniq  == IF keep THEN Append(unique_recommendations, rec)
                               ELSE unique_recommendations
                  IN  IF Len(uniq) >= 3 THEN Ret(uniq)
                      ELSE DedupLoop_keeping_blank(Tail(recommendations), seen, uniq)

\* Lines 817-826: the de-duplication loop. rec.get on a value that is not a
\* dict raises AttributeError.
RECURSIVE DedupLoop(_, _, _)
DedupLoop(recommendations, seen_titles, unique_recommendations) ==
    IF recommendations = <<>> THEN Ret(unique_recommendations)
    ELSE LET rec == Head(recommendations)
         IN  IF ~IsDict(rec) THEN Raise("AttributeError")
             ELSE LET title == NormTitle(Get(rec, "title", ""))
                      keep  == title # "" /\ title \notin seen_titles
                      seen  == IF keep THEN seen_titles \cup {title} ELSE seen_titles
                      uniq  == IF keep THEN Append(unique_recommendations, rec)
                               ELSE unique_recommendations
                  IN  IF Len(uniq) >= 3 THEN Ret(uniq)
                      ELSE DedupLoop(Tail(recommendations), seen, uniq)

\* Lines 803-812 on the completion text. A text is [fence, json, value]:
\* fence says that it starts with ```; json is "array", "object", "scalar"
\* or "invalid".
\* With a fence, the pattern ```(?:json)?\s*(\[.*?\])\s*``` extracts the
\* array when the fenced payload is one; otherwise the text is left as it is
\* and json.loads fails on the fence.
JsonLoads(text) ==
    IF text.json = "invalid" THEN Raise("JSONDecodeError")
    ELSE IF text.fence /\ text.json # "array" THEN Raise("JSONDecodeError")
    ELSE Ret(text.value)

\* Lines 815-828 on the parsed value.
FromParsed(text) ==
    IF text.json = "array" THEN
        LET d == DedupLoop(text.value, {}, <<>>)
        IN  IF Raised(d) THEN d ELSE Ret(Take(d.ret, 3))
    ELSE IF text.value = EmptyDict THEN Ret(<<>>)
    ELSE Ret(<<text.value>>)

\* Lines 661-828, the body of the try block. llm is the outcome of the one
\* call of line 796: [fault |-> TRUE] or [fault |-> FALSE, text |-> ...].
\* The result is Ret(list) or Raise(exception raised inside the try).
TryBody(seo_analysis, performance_analysis, content_analysis, technical_analysis, openai_api_key, llm) ==
    IF ~openai_api_key
    THEN _generate_basic_recommendations(seo_analysis, performance_analysis,
                                         content_analysis, technical_analysis)
    ELSE IF Raised(FourScores(performance_analysis)) THEN FourScores(performance_analysis)
    ELSE IF llm.fault THEN Raise("APIError")
    ELSE LET parsed == JsonLoads(llm.text)
         IN  IF Raised(parsed) THEN parsed ELSE FromParsed(llm.text)

\* Mutant: only the handler of line 830; any other exception of the try
\* block is raised to the caller.
_generate_recommendations_json_handler_only(seo_analysis, performance_analysis, content_analysis, technical_analysis, openai_api_key, llm) ==
    LET body == TryBody(seo_analysis, performance_analysis, content_analysis,
                        technical_analysis, openai_api_key, llm)
    IN  IF Raised(body) /\ body.exc = "JSONDecodeError"
        THEN _generate_basic_recommendations(seo_analysis, performance_analysis,
                                             content_analysis, technical_analysis)
        ELSE body

\* Lines 658-836. Both handlers (830-836) return the deterministic path's
\* output; an exception of that call is raised to the caller.
_generate_recommendations(seo_analysis, performance_analysis, content_analysis, technical_analysis, openai_api_key, llm) ==
    LET body == TryBody(seo_analysis, performance_analysis, content_analysis,
                        technical_analysis, openai_api_key, llm)
    IN  IF Raised(body)
        THEN _generate_basic_recommendations(seo_analysis, performance_analysis,
                                             content_analysis, technical_analysis)
        ELSE body

\* Mutant: the call of line 796 is reached without a credential.
LLMCalled_without_key(performance_analysis, openai_api_key) ==
    ~Raised(FourScores(performance_analysis))

\* TRUE iff the run reaches the call of line 796.
LLMCalled(performance_analysis, openai_api_key) ==
    openai_api_key /\ ~Raised(FourScores(performance_analysis))

----------------------------------------------------------------------------
(* URL validation, lines 1040-1046 *)

\* urlparse(url) on the URLs of the model: scheme and netloc, or ValueError
\* (an unbalanced bracket in the host).
UrlParse ==
       "https://a.com" :> Ret([scheme |-> "https", netloc |-> "a.com"])
    @@ "http://a.com"  :> Ret([scheme |-> "http", netloc |-> "a.com"])
    @@ "a.com"         :> Ret([scheme |-> "", netloc |-> ""])
    @@ "https://"      :> Ret([scheme |-> "https", netloc |-> ""])
    @@ "//a.com"       :> Ret([scheme |-> "", netloc |-> "a.com"])
    @@ "http://[a"     :> Raise("ValueError")

\* url.startswith('https://') on the URLs of the model, lines 203 and 414.
StartsWithHttps(url) == url \in {"https://a.com", "https://"}

\* Mutant: any([scheme, netloc]) in place of all([scheme, netloc]).
_is_valid_url_any(url) ==
    LET result == UrlParse[url]
    IN  IF Raised(result) THEN FALSE
        ELSE result.ret.scheme # "" \/ result.ret.netloc # ""

_is_valid_url(url) ==
    LET result == UrlParse[url]
    IN  IF Raised(result) THEN FALSE
        ELSE result.ret.scheme # "" /\ result.ret.netloc # ""

----------------------------------------------------------------------------
(* Probes, lines 118-492.  fetch is the outcome of requests.get:            *)
(* [fault |-> TRUE] or [fault |-> FALSE, page |-> facts of the document].  *)
(* A probe ends in Ret(dict), or in Raise(e) if an exception leaves it.    *)

\* Lines 118-211: every fault ends in the handler of line 209, which returns {}.
_analyze_seo(url, fetch) ==
    IF fetch.fault THEN Ret(EmptyDict)
    ELSE Ret([title |-> [length |-> fetch.page.title_length],
              meta_description |-> [text |-> fetch.page.description],
              images |-> [alt_coverage |-> fetch.page.alt_coverage]])

\* Mutant: no handler around the fetch, the exception leaves the probe.
_analyze_content_unguarded(url, fetch) ==
    IF fetch.fault THEN Raise("ConnectionError")
    ELSE Ret([word_count |-> fetch.page.word_count])

\* Lines 344-403: the handler of line 401 returns {}.
_analyze_content(url, fetch) ==
    IF fetch.fault THEN Ret(EmptyDict)
    ELSE Ret([word_count |-> fetch.page.word_count])

\* Lines 405-492: the handler of line 490 returns {}; has_ssl is the scheme
\* test of line 414.
_analyze_technical(url, fetch) ==
    IF fetch.fault THEN Ret(EmptyDict)
    ELSE Ret([ssl |-> [has_ssl |-> StartsWithHttps(url)],
              status_code |-> fetch.page.status_code])

\* The keys under lighthouseResult.categories that the code reads.
CategoryKeys == {"seo", "performance", "accessibility", "best-practices"}

\* Lines 252-342. data is the JSON body: a dict that may hold
\* lighthouseResult.categories (key -> details, details a dict or None) and
\* lighthouseResult.audits. details.get on None raises AttributeError,
\* which the handler of line 340 turns into an error dict.
_parse_pagespeed_data(data) ==
    LET lighthouse_result == Get(data, "lighthouseResult", EmptyDict)
        categories == Get(lighthouse_result, "categories", EmptyDict)
        audits == Get(lighthouse_result, "audits", EmptyDict)
        lcp == "largest-contentful-paint"
    IN  IF \E c \in DOMAIN categories : ~IsDict(categories[c])
        THEN [error |-> "'NoneType' object has no attribute 'get'"]
        ELSE [scores |->
                 [c \in DOMAIN categories |->
                     [score |-> Get(categories[c], "score", PyNum(0))]],
              core_web_vitals |->
                 IF Has(audits, lcp)
                 THEN [lcp |-> [value |-> Get(audits[lcp], "numericValue", 0)]]
                 ELSE EmptyDict]

\* Lines 213-250. psi is the outcome of the GET of line 235:
\* [kind |-> "fault"], [kind |-> "status", status |-> n] with n # 200, or
\* [kind |-> "ok", data |-> JSON body].
_analyze_performance(url, pagespeed_api_key, psi) ==
    IF ~pagespeed_api_key THEN Ret([error |-> "PageSpeed API key not configured"])
    ELSE IF psi.kind = "fault" THEN Ret([error |-> "Cannot connect to host"])
    ELSE IF psi.kind = "status"
    THEN Ret([error |-> "PageSpeed API returned status"])
    ELSE Ret(_parse_pagespeed_data(psi.data))

----------------------------------------------------------------------------
(* Cache, lines 1065-1081 *)

\* Line 1076: 24 hours in seconds.
CacheSeconds == 86400

\* Lines 1065-1068: the body is `return None`.
_get_cached_analysis(url) == PyNone

\* Lines 1078-1080: the body is empty; the store is left as it is.
_cache_analysis_result(store, result) == store

\* Mutant: a freshness window of one hour.
_is_cache_valid_one_hour(result, t) ==
    IF result = PyNone THEN FALSE
    ELSE t - result.analysis_date < 3600

\* Mutant: an entry exactly 24 hours old still counts as fresh.
_is_cache_valid_inclusive(result, t) ==
    IF result = PyNone THEN FALSE
    ELSE t - result.analysis_date <= CacheSeconds

\* Lines 1070-1076, with datetime.now() = t.
_is_cache_valid(result, t) ==
    IF result = PyNone THEN FALSE
    ELSE t - result.analysis_date < CacheSeconds

\* The result store of spec section 6: get(url) -> entry or absent.
StoreGet(store, url) == store[url]

\* The result store of spec section 6: put(url, result), single-key overwrite.
StorePut(store, result) == [store EXCEPT ![result.url] = result]

----------------------------------------------------------------------------
(* The environment of a specification: the inputs its actions draw from.   *)

\* Number of analyze_website calls in a behaviour.
MaxCalls == 2

\* Number of clock advances in a behaviour.
MaxTicks == 2

RunIds == {1, 2}

ProbeNames == {"seo", "performance", "content", "technical"}

Page(fields) == [fault |-> FALSE, page |-> fields]

Fault == [fault |-> TRUE]

\* A PageSpeed JSON body with the four categories and the LCP audit.
PsiData(seo, performance, accessibility, best_practices, lcp) ==
    [lighthouseResult |->
        [categories |-> (   "seo" :> [score |-> seo]
                         @@ "performance" :> [score |-> performance]
                         @@ "accessibility" :> [score |-> accessibility]
                         @@ "best-practices" :> [score |-> best_practices]),
         audits |-> ("largest-contentful-paint" :> [numericValue |-> lcp])]]

PsiOk(data) == [kind |-> "ok", data |-> data]

LLMText(fence, json, value) ==
    [fault |-> FALSE, text |-> [fence |-> fence, json |-> json, value |-> value]]

LLMFault == [fault |-> TRUE]

RecA == Rec("SEO", "Fix Images", "High")

RecB == Rec("SEO", " fix images ", "Low")

RecC == Rec("Performance", "Go Fast", "Medium")

RecD == Rec("Accessibility", "Add Alt", "Medium")

RecE == Rec("Best Practices", "Use CDN", "Low")

\* An item without a title, and an item whose title is blank.
RecNoTitle == [category |-> "Content", impact |-> "Low"]

RecBlank == Rec("Content", "  ", "Low")

\* The environment of the orchestrator specifications.
DomOrch ==
    [backend |-> "stub",
     put_fails |-> {FALSE},
     concurrent |-> FALSE, keep_items |-> FALSE,
     calls |-> MaxCalls,
     ticks |-> MaxTicks,
     urls |-> {"https://a.com", "http://a.com", "a.com", "https://", "//a.com", "http://[a"},
     deltas |-> {CacheSeconds \div 2},
     seo |-> {Fault,
              Page([title_length |-> 20, description |-> "", alt_coverage |-> 500]),
              Page([title_length |-> 55, description |-> "About us", alt_coverage |-> 1000])},
     content |-> {Fault, Page([word_count |-> 300])},
     technical |-> {Fault, Page([status_code |-> 200])},
     psi |-> {[kind |-> "fault"], [kind |-> "status", status |-> 403],
              PsiOk(PsiData(PyNum(290), PyNum(290), PyNum(290), PyNum(290), 3200)),
              PsiOk(PsiData(PyNum(900), PyNum(1000), PyNum(900), PyNum(950), 2500)),
              PsiOk(PsiData(PyNum(896), PyNum(290), PyNum(900), PyNum(1500), 2500)),
              PsiOk(PsiData(PyNum(500), PyNum(500), PyNum(500), PyNone, 2500)),
              PsiOk([lighthouseResult |-> [categories |-> [c \in {"seo"} |-> PyNone]]]),
              PsiOk(EmptyDict)},
     llm |-> {LLMFault,
              LLMText(FALSE, "invalid", <<>>),
              LLMText(TRUE, "array", <<RecA, RecB, RecC>>),
              LLMText(FALSE, "array", <<RecA, RecC, RecD, RecE>>),
              LLMText(FALSE, "array", <<RecA, PyStr>>),
              LLMText(TRUE, "object", RecA),
              LLMText(FALSE, "object", RecA)}]

\* Length of the longest JSON array the LLM returns.
MaxLLMItems == 4

\* Number of analyze_website calls and of clock advances in a behaviour of
\* the recommendation engine's specification.
MaxEngineCalls == 1

MaxEngineTicks == 1

\* The items of the arrays the LLM returns: two titles equal up to case and
\* blanks, three more titles, a blank title.
LLMItems == {RecA, RecB, RecC, RecD, RecE, RecBlank}

LLMArrays == UNION {[1..k -> LLMItems] : k \in 0..MaxLLMItems}

\* The environment of the specification of the recommendation engine: every
\* array over LLMItems up to MaxLLMItems, arrays with an item without title
\* and with a non-object, objects, unparsable text, faults.
DomRecs ==
    [backend |-> "stub",
     put_fails |-> {FALSE},
     concurrent |-> FALSE, keep_items |-> FALSE,
     calls |-> MaxEngineCalls,
     ticks |-> MaxEngineTicks,
     urls |-> {"https://a.com"},
     deltas |-> {CacheSeconds \div 2},
     seo |-> {Fault,
              Page([title_length |-> 55, description |-> "", alt_coverage |-> 1000]),
              Page([title_length |-> 55, description |-> "About us", alt_coverage |-> 1000])},
     content |-> {Page([word_count |-> 300])},
     technical |-> {Fault, Page([status_code |-> 200])},
     psi |-> {[kind |-> "status", status |-> 403],
              PsiOk(PsiData(PyNum(290), PyNum(290), PyNum(290), PyNum(290), 3200)),
              PsiOk(PsiData(PyNum(950), PyNum(500), PyNum(900), PyNum(290), 2500))},
     llm |-> {LLMFault,
              LLMText(FALSE, "invalid", <<>>),
              LLMText(TRUE, "array", <<RecA, RecB, RecC>>),
              LLMText(TRUE, "object", RecA),
              LLMText(FALSE, "object", RecB),
              LLMText(FALSE, "object", RecNoTitle),
              LLMText(FALSE, "object", EmptyDict),
              LLMText(FALSE, "scalar", PyStr),
              LLMText(FALSE, "array", <<RecNoTitle, RecA, RecNoTitle>>),
              LLMText(FALSE, "array", <<RecA, PyStr>>)}
             \cup {LLMText(FALSE, "array", a) : a \in LLMArrays}]

\* The category fractions (in thousandths) of the deterministic path's
\* specification: 28, 75, 89 and 90 as scores.
FallbackFractions == {290, 750, 896, 900}

\* The environment of the specification of the deterministic path: every
\* combination of the four fractions with an LCP at and above the threshold
\* of line 890, SEO findings that match the first, the second or no test of
\* lines 864-884, and technical findings with and without ssl.
DomFallback ==
    [backend |-> "stub",
     put_fails |-> {FALSE},
     concurrent |-> FALSE, keep_items |-> FALSE,
     calls |-> MaxEngineCalls,
     ticks |-> MaxEngineTicks,
     urls |-> {"https://a.com"},
     deltas |-> {CacheSeconds \div 2},
     seo |-> {Fault,
              Page([title_length |-> 55, description |-> "", alt_coverage |-> 1000]),
              Page([title_length |-> 55, description |-> "About us", alt_coverage |-> 1000])},
     content |-> {Page([word_count |-> 300])},
     technical |-> {Fault, Page([status_code |-> 200])},
     psi |-> {[kind |-> "status", status |-> 403]}
             \cup {PsiOk(PsiData(PyNum(s), PyNum(p), PyNum(a), PyNum(b), lcp)) :
                       s \in FallbackFractions, p \in FallbackFractions,
                       a \in FallbackFractions, b \in FallbackFractions,
                       lcp \in {2500, 2501}},
     llm |-> {LLMFault, LLMText(FALSE, "array", <<RecA, RecC>>)}]

\* The environment of the specification of concurrent calls: calls for one
\* URL that overlap, over a result store.
\* The environment of the specification of the de-duplication: one outcome
\* of each probe, every array over LLMItems up to MaxLLMItems and arrays
\* with an item without title; a run keeps the array it was given.
DomDedup ==
    [backend |-> "stub", put_fails |-> {FALSE}, concurrent |-> FALSE, keep_items |-> TRUE,
     calls |-> MaxEngineCalls, ticks |-> MaxEngineTicks,
     urls |-> {"https://a.com"}, deltas |-> {CacheSeconds \div 2},
     seo |-> {Page([title_length |-> 55, description |-> "About us", alt_coverage |-> 1000])},
     content |-> {Page([word_count |-> 300])},
     technical |-> {Page([status_code |-> 200])},
     psi |-> {PsiOk(PsiData(PyNum(290), PyNum(290), PyNum(290), PyNum(290), 3200))},
     llm |-> {LLMFault,
              LLMText(FALSE, "array", <<RecNoTitle, RecA, RecNoTitle>>),
              LLMText(TRUE, "array", <<RecA, RecNoTitle, RecB, RecC>>)}
             \cup {LLMText(FALSE, "array", a) : a \in LLMArrays}]

DomConc ==
    [backend |-> "store",
     put_fails |-> {FALSE},
     concurrent |-> TRUE, keep_items |-> FALSE,
     calls |-> MaxCalls,
     ticks |-> MaxEngineTicks,
     urls |-> {"https://a.com"},
     deltas |-> {CacheSeconds \div 2},
     seo |-> {Fault,
              Page([title_length |-> 55, description |-> "About us", alt_coverage |-> 1000])},
     content |-> {Fault, Page([word_count |-> 300])},
     technical |-> {Fault, Page([status_code |-> 200])},
     psi |-> {[kind |-> "status", status |-> 403],
              PsiOk(PsiData(PyNum(896), PyNum(290), PyNum(900), PyNum(950), 2500))},
     llm |-> {LLMFault}]

\* The environment of the specification with a result store behind the
\* cache lookup and the cache write.
DomStore ==
    [backend |-> "store",
     put_fails |-> BOOLEAN,
     concurrent |-> FALSE, keep_items |-> FALSE,
     calls |-> MaxCalls,
     ticks |-> MaxTicks,
     urls |-> {"https://a.com", "http://a.com", "a.com"},
     deltas |-> {CacheSeconds \div 2},
     seo |-> {Fault,
              Page([title_length |-> 55, description |-> "About us", alt_coverage |-> 1000])},
     content |-> {Page([word_count |-> 300])},
     technical |-> {Page([status_code |-> 200])},
     psi |-> {[kind |-> "status", status |-> 403],
              PsiOk(PsiData(PyNum(900), PyNum(1000), PyNum(900), PyNum(950), 2500)),
              PsiOk(PsiData(PyNum(500), PyNum(500), PyNum(500), PyNone, 2500))},
     llm |-> {LLMFault,
              LLMText(FALSE, "array", <<RecA, RecC>>)}]

----------------------------------------------------------------------------
(* State *)

VARIABLES
    pagespeed_api_key,  \* line 45: TRUE iff GOOGLE_PAGESPEED_API_KEY is set
    openai_api_key,     \* line 48: TRUE iff OPENAI_API_KEY is set
    now,                \* datetime.now(), in seconds
    ticks,              \* clock advances so far
    calls,              \* analyze_website calls so far
    db,                 \* the result store: url -> result or None
    hist,               \* url -> summary of the last result returned for it
    run                 \* run id -> the state of that analyze_website call

vars == <<pagespeed_api_key, openai_api_key, now, ticks, calls, db, hist, run>>

AllUrls == DOMAIN UrlParse

\* A call that has not started: no probe launched, nothing read or written.
NoRun ==
    [pc |-> "idle", url |-> "", started |-> 0, prior |-> PyNone,
     pst |-> [p \in ProbeNames |-> "pending"],
     out |-> [p \in ProbeNames |-> PyNone],
     launched |-> [p \in ProbeNames |-> 0],
     faulted |-> [p \in ProbeNames |-> FALSE],
     looked_up |-> PyNone,
     settled_at_recs |-> {},
     cache_reads |-> 0, cache_writes |-> 0, llm_calls |-> 0,
     recs_calls |-> 0, score_calls |-> 0,
     from_cache |-> FALSE, llm_seen |-> PyNone,
     recommendations |-> <<>>, result |-> PyNone, exc |-> ""]

\* What a run keeps of the LLM's response: all of it, except the items of
\* an array.
LLMSeen(llm) ==
    IF llm.fault THEN llm
    ELSE IF llm.text.json = "array" THEN [llm EXCEPT !.text.value = <<>>]
    ELSE llm

Free(rn) == rn.pc \in {"idle", "returned", "raised"}

Settled(rn) == {p \in ProbeNames : rn.pst[p] = "settled"}

\* What is kept, per URL, of the last result returned for it.
Summary(result) ==
    [analysis_date |-> result.analysis_date]

CacheLookup(D, store, url) ==
    IF D.backend = "store" THEN StoreGet(store, url) ELSE _get_cached_analysis(url)

CacheWrite(D, store, result) ==
    IF D.backend = "store" THEN StorePut(store, result)
    ELSE _cache_analysis_result(store, result)

\* Mutant: a wait that returns once the three page probes are done, with {}
\* for a Performance task still in flight.
asyncio_gather_page_probes(pst, out) ==
    IF \E p \in ProbeNames : pst[p] = "settled" /\ Raised(out[p])
    THEN Raise("ProbeError")
    ELSE IF \A p \in ProbeNames \ {"performance"} : pst[p] = "settled"
    THEN Ret([p \in ProbeNames |->
                 IF pst[p] = "settled" THEN out[p].ret ELSE EmptyDict])
    ELSE [pending |-> TRUE]

\* Line 76, await asyncio.gather(*tasks): pending while a task is
\* unfinished and none has raised; the exception of a task that raised;
\* otherwise the four results.
asyncio_gather(pst, out) ==
    IF \E p \in ProbeNames : pst[p] = "settled" /\ Raised(out[p])
    THEN Raise("ProbeError")
    ELSE IF \A p \in ProbeNames : pst[p] = "settled"
    THEN Ret([p \in ProbeNames |-> out[p].ret])
    ELSE [pending |-> TRUE]

Init ==
    /\ pagespeed_api_key \in BOOLEAN
    /\ openai_api_key \in BOOLEAN
    /\ now = 0
    /\ ticks = 0
    /\ calls = 0
    /\ db = [u \in AllUrls |-> PyNone]
    /\ hist = [u \in AllUrls |-> PyNone]
    /\ run = [r \in RunIds |-> NoRun]

\* Lines 53-76: validation, cache check, launch of the four tasks.
Entry(url, D) ==
    LET base == [NoRun EXCEPT !.url = url, !.started = now, !.prior = hist[url]]
    IN  IF ~_is_valid_url(url)
        THEN [base EXCEPT !.pc = "raised", !.exc = "ValueError"]
        ELSE LET cached_result == CacheLookup(D, db, url)
             IN  IF cached_result # PyNone /\ _is_cache_valid(cached_result, now)
                 THEN [base EXCEPT !.pc = "returned", !.cache_reads = 1,
                                   !.looked_up = cached_result,
                                   !.from_cache = TRUE, !.result = cached_result]
                 ELSE [base EXCEPT !.pc = "gather", !.cache_reads = 1,
                                   !.looked_up = cached_result]

AnalyzeStart(r, D) ==
    /\ calls < D.calls
    /\ Free(run[r])
    /\ \A q \in RunIds : q < r => ~Free(run[q])
    /\ D.concurrent \/ \A q \in RunIds : Free(run[q])
    /\ \E url \in D.urls :
          LET e == Entry(url, D)
          IN  /\ run' = [run EXCEPT ![r] = e]
              /\ hist' = IF e.pc = "returned"
                         THEN [hist EXCEPT ![url] = Summary(e.result)]
                         ELSE hist
    /\ calls' = calls + 1
    /\ UNCHANGED <<pagespeed_api_key, openai_api_key, now, ticks, db>>

\* A task ends with outcome; fault says whether a fetch, service or parse
\* fault occurred inside it.
Settle(r, p, outcome, fault) ==
    run' = [run EXCEPT ![r].pst[p] = "settled", ![r].out[p] = outcome,
                       ![r].faulted[p] = fault,
                       ![r].launched[p] = @ + IF run[r].pst[p] = "pending" THEN 1 ELSE 0]

\* The GET of line 235 did not deliver a body that _parse_pagespeed_data
\* can read.
PsiFault(psi) ==
    \/ psi.kind # "ok"
    \/ LET categories == Get(Get(psi.data, "lighthouseResult", EmptyDict),
                             "categories", EmptyDict)
       IN  \E c \in DOMAIN categories : ~IsDict(categories[c])

\* The SEO task: requests.get blocks, so the task runs to its end in one step.
StepSeo(r, D) ==
    /\ run[r].pc = "gather"
    /\ run[r].pst["seo"] = "pending"
    /\ \E fetch \in D.seo : Settle(r, "seo", _analyze_seo(run[r].url, fetch), fetch.fault)
    /\ UNCHANGED <<pagespeed_api_key, openai_api_key, now, ticks, calls, db, hist>>

\* The Performance task up to the GET of line 235, its first suspension;
\* without an API key it returns at line 218.
StepPerformanceStart(r, D) ==
    /\ run[r].pc = "gather"
    /\ run[r].pst["seo"] # "pending"
    /\ run[r].pst["performance"] = "pending"
    /\ IF ~pagespeed_api_key
       THEN Settle(r, "performance",
                   _analyze_performance(run[r].url, FALSE, [kind |-> "fault"]), TRUE)
       ELSE run' = [run EXCEPT ![r].pst["performance"] = "inflight",
                               ![r].launched["performance"] = @ + 1]
    /\ UNCHANGED <<pagespeed_api_key, openai_api_key, now, ticks, calls, db, hist>>

\* The Content task, blocking like the SEO task.
StepContent(r, D) ==
    /\ run[r].pc = "gather"
    /\ run[r].pst["performance"] # "pending"
    /\ run[r].pst["content"] = "pending"
    /\ \E fetch \in D.content : Settle(r, "content", _analyze_content(run[r].url, fetch), fetch.fault)
    /\ UNCHANGED <<pagespeed_api_key, openai_api_key, now, ticks, calls, db, hist>>

\* The Technical task, blocking like the SEO task.
StepTechnical(r, D) ==
    /\ run[r].pc = "gather"
    /\ run[r].pst["content"] # "pending"
    /\ run[r].pst["technical"] = "pending"
    /\ \E fetch \in D.technical :
          Settle(r, "technical", _analyze_technical(run[r].url, fetch), fetch.fault)
    /\ UNCHANGED <<pagespeed_api_key, openai_api_key, now, ticks, calls, db, hist>>

\* The Performance task resumes when the GET completes; the loop runs the
\* first steps of the four tasks before it polls for I/O.
StepPerformanceSettle(r, D) ==
    /\ run[r].pc = "gather"
    /\ run[r].pst["performance"] = "inflight"
    /\ run[r].pst["technical"] # "pending"
    /\ \E psi \in D.psi :
          Settle(r, "performance", _analyze_performance(run[r].url, TRUE, psi),
                 PsiFault(psi))
    /\ UNCHANGED <<pagespeed_api_key, openai_api_key, now, ticks, calls, db, hist>>

\* The run after _generate_recommendations returned or raised (line 79).
AfterRecommendations(rn, recs) ==
    IF Raised(recs) THEN [rn EXCEPT !.pc = "raised", !.exc = recs.exc]
    ELSE [rn EXCEPT !.pc = "recommended", !.recommendations = recs.ret]

\* Lines 76-79: the gather returns or raises; _generate_recommendations runs
\* up to the LLM call of line 796, or to its end when no call is made.
Recommend(r, D) ==
    LET rn == run[r]
        g  == asyncio_gather(rn.pst, rn.out)
        at == [rn EXCEPT !.settled_at_recs = Settled(rn), !.recs_calls = @ + 1]
    IN  /\ rn.pc = "gather"
        /\ ~Has(g, "pending")
        /\ run' = [run EXCEPT ![r] =
              IF Raised(g) THEN [rn EXCEPT !.pc = "raised", !.exc = g.exc]
              ELSE IF LLMCalled(g.ret["performance"], openai_api_key)
              THEN [at EXCEPT !.pc = "llm", !.llm_calls = @ + 1]
              ELSE AfterRecommendations(at,
                      _generate_recommendations(g.ret["seo"], g.ret["performance"],
                          g.ret["content"], g.ret["technical"], openai_api_key, LLMFault))]
        /\ UNCHANGED <<pagespeed_api_key, openai_api_key, now, ticks, calls, db, hist>>

\* Lines 796-836: the LLM call completes or fails, the rest of
\* _generate_recommendations runs.
LLMReturn(r, D) ==
    LET rn == run[r]
    IN  /\ rn.pc = "llm"
        /\ \E llm \in D.llm :
              run' = [run EXCEPT ![r] =
                  AfterRecommendations([rn EXCEPT !.llm_seen = IF D.keep_items THEN llm ELSE LLMSeen(llm)],
                      _generate_recommendations(rn.out["seo"].ret, rn.out["performance"].ret,
                          rn.out["content"].ret, rn.out["technical"].ret,
                          openai_api_key, llm))]
        /\ UNCHANGED <<pagespeed_api_key, openai_api_key, now, ticks, calls, db, hist>>

\* Mutant: the SEO score is 0 when the SEO probe returned no findings.
Assemble_seo_from_findings(r, D) ==
    LET rn   == run[r]
        four == FourScores(rn.out["performance"].ret)
    IN  /\ rn.pc = "recommended"
        /\ run' = [run EXCEPT ![r] =
              IF Raised(four)
              THEN [rn EXCEPT !.pc = "raised", !.exc = four.exc, !.score_calls = @ + 1]
              ELSE [rn EXCEPT !.pc = "assembled", !.score_calls = @ + 1,
                      !.result =
                          [url |-> rn.url,
                           analysis_date |-> now,
                           seo_score |-> IF rn.out["seo"].ret = EmptyDict THEN 0
                                        ELSE four.ret.seo,
                           performance_score |-> four.ret.performance,
                           accessibility_score |-> four.ret.accessibility,
                           best_practices_score |-> four.ret.best_practices,
                           seo_analysis |-> rn.out["seo"].ret,
                           performance_analysis |-> rn.out["performance"].ret,
                           content_analysis |-> rn.out["content"].ret,
                           technical_analysis |-> rn.out["technical"].ret,
                           recommendations |-> rn.recommendations]]]
        /\ UNCHANGED <<pagespeed_api_key, openai_api_key, now, ticks, calls, db, hist>>

\* Lines 82-106: the four scores and the result object.
Assemble(r, D) ==
    LET rn   == run[r]
        four == FourScores(rn.out["performance"].ret)
    IN  /\ rn.pc = "recommended"
        /\ run' = [run EXCEPT ![r] =
              IF Raised(four)
              THEN [rn EXCEPT !.pc = "raised", !.exc = four.exc, !.score_calls = @ + 1]
              ELSE [rn EXCEPT !.pc = "assembled", !.score_calls = @ + 1,
                      !.result =
                          [url |-> rn.url,
                           analysis_date |-> now,
                           seo_score |-> four.ret.seo,
                           performance_score |-> four.ret.performance,
                           accessibility_score |-> four.ret.accessibility,
                           best_practices_score |-> four.ret.best_practices,
                           seo_analysis |-> rn.out["seo"].ret,
                           performance_analysis |-> rn.out["performance"].ret,
                           content_analysis |-> rn.out["content"].ret,
                           technical_analysis |-> rn.out["technical"].ret,
                           recommendations |-> rn.recommendations]]]
        /\ UNCHANGED <<pagespeed_api_key, openai_api_key, now, ticks, calls, db, hist>>

\* Mutant: the write is skipped when the URL has an entry already.
CacheAndReturn_first_write_wins(r, D) ==
    LET rn == run[r]
    IN  /\ rn.pc = "assembled"
        /\ db' = IF CacheLookup(D, db, rn.url) = PyNone
                 THEN CacheWrite(D, db, rn.result) ELSE db
        /\ run' = [run EXCEPT ![r].pc = "returned", ![r].cache_writes = @ + 1]
        /\ hist' = [hist EXCEPT ![rn.url] = Summary(rn.result)]
        /\ UNCHANGED <<pagespeed_api_key, openai_api_key, now, ticks, calls>>

\* Lines 108-116: the cache write and the return. The await of line 109 is
\* inside the try of line 55: an exception of the write is logged by the
\* handler of line 114 and raised again (line 116). The stub's body cannot
\* fail; a store's put can.
CacheAndReturn(r, D) ==
    LET rn == run[r]
    IN  /\ rn.pc = "assembled"
        /\ \E put_fails \in D.put_fails :
              IF put_fails
              THEN /\ db' = db
                   /\ run' = [run EXCEPT ![r].pc = "raised",
                                         ![r].exc = "PersistenceError",
                                         ![r].cache_writes = @ + 1]
                   /\ hist' = hist
              ELSE /\ db' = CacheWrite(D, db, rn.result)
                   /\ run' = [run EXCEPT ![r].pc = "returned", ![r].cache_writes = @ + 1]
                   /\ hist' = [hist EXCEPT ![rn.url] = Summary(rn.result)]
        /\ UNCHANGED <<pagespeed_api_key, openai_api_key, now, ticks, calls>>

\* Time passes between calls. The clock is read at the entry of a call
\* (line 1075) and at line 90.
Tick(D) ==
    /\ ticks < D.ticks
    /\ \A r \in RunIds : Free(run[r])
    /\ \E d \in D.deltas : now' = now + d
    /\ ticks' = ticks + 1
    /\ UNCHANGED <<pagespeed_api_key, openai_api_key, calls, db, hist, run>>

Next ==
    \/ \E r \in RunIds : AnalyzeStart(r, DomOrch)
    \/ \E r \in RunIds : StepSeo(r, DomOrch)
    \/ \E r \in RunIds : StepPerformanceStart(r, DomOrch)
    \/ \E r \in RunIds : StepContent(r, DomOrch)
    \/ \E r \in RunIds : StepTechnical(r, DomOrch)
    \/ \E r \in RunIds : StepPerformanceSettle(r, DomOrch)
    \/ \E r \in RunIds : Recommend(r, DomOrch)
    \/ \E r \in RunIds : LLMReturn(r, DomOrch)
    \/ \E r \in RunIds : Assemble(r, DomOrch)
    \/ \E r \in RunIds : CacheAndReturn(r, DomOrch)
    \/ Tick(DomOrch)

Spec == Init /\ [][Next]_vars

\* The same operations over a result store (spec section 6) in place of the
\* two cache stubs.
NextStore ==
    \/ \E r \in RunIds : AnalyzeStart(r, DomStore)
    \/ \E r \in RunIds : StepSeo(r, DomStore)
    \/ \E r \in RunIds : StepPerformanceStart(r, DomStore)
    \/ \E r \in RunIds : StepContent(r, DomStore)
    \/ \E r \in RunIds : StepTechnical(r, DomStore)
    \/ \E r \in RunIds : StepPerformanceSettle(r, DomStore)
    \/ \E r \in RunIds : Recommend(r, DomStore)
    \/ \E r \in RunIds : LLMReturn(r, DomStore)
    \/ \E r \in RunIds : Assemble(r, DomStore)
    \/ \E r \in RunIds : CacheAndReturn(r, DomStore)
    \/ Tick(DomStore)

SpecStore == Init /\ [][NextStore]_vars

\* The same operations with the LLM returning every array of DomRecs.
NextRecs ==
    \/ \E r \in RunIds : AnalyzeStart(r, DomRecs)
    \/ \E r \in RunIds : StepSeo(r, DomRecs)
    \/ \E r \in RunIds : StepPerformanceStart(r, DomRecs)
    \/ \E r \in RunIds : StepContent(r, DomRecs)
    \/ \E r \in RunIds : StepTechnical(r, DomRecs)
    \/ \E r \in RunIds : StepPerformanceSettle(r, DomRecs)
    \/ \E r \in RunIds : Recommend(r, DomRecs)
    \/ \E r \in RunIds : LLMReturn(r, DomRecs)
    \/ \E r \in RunIds : Assemble(r, DomRecs)
    \/ \E r \in RunIds : CacheAndReturn(r, DomRecs)
    \/ Tick(DomRecs)

SpecRecs == Init /\ [][NextRecs]_vars

\* The same operations over the score and findings grid of DomFallback.
NextFallback ==
    \/ \E r \in RunIds : AnalyzeStart(r, DomFallback)
    \/ \E r \in RunIds : StepSeo(r, DomFallback)
    \/ \E r \in RunIds : StepPerformanceStart(r, DomFallback)
    \/ \E r \in RunIds : StepContent(r, DomFallback)
    \/ \E r \in RunIds : StepTechnical(r, DomFallback)
    \/ \E r \in RunIds : StepPerformanceSettle(r, DomFallback)
    \/ \E r \in RunIds : Recommend(r, DomFallback)
    \/ \E r \in RunIds : LLMReturn(r, DomFallback)
    \/ \E r \in RunIds : Assemble(r, DomFallback)
    \/ \E r \in RunIds : CacheAndReturn(r, DomFallback)
    \/ Tick(DomFallback)

SpecFallback == Init /\ [][NextFallback]_vars

\* The same operations with calls that overlap: a call may start while
\* another is suspended at an await.
NextDedup ==
    \/ \E r \in RunIds : AnalyzeStart(r, DomDedup)
    \/ \E r \in RunIds : StepSeo(r, DomDedup)
    \/ \E r \in RunIds : StepPerformanceStart(r, DomDedup)
    \/ \E r \in RunIds : StepContent(r, DomDedup)
    \/ \E r \in RunIds : StepTechnical(r, DomDedup)
    \/ \E r \in RunIds : StepPerformanceSettle(r, DomDedup)
    \/ \E r \in RunIds : Recommend(r, DomDedup)
    \/ \E r \in RunIds : LLMReturn(r, DomDedup)
    \/ \E r \in RunIds : Assemble(r, DomDedup)
    \/ \E r \in RunIds : CacheAndReturn(r, DomDedup)
    \/ Tick(DomDedup)

SpecDedup == Init /\ [][NextDedup]_vars

NextConc ==
    \/ \E r \in RunIds : AnalyzeStart(r, DomConc)
    \/ \E r \in RunIds : StepSeo(r, DomConc)
    \/ \E r \in RunIds : StepPerformanceStart(r, DomConc)
    \/ \E r \in RunIds : StepContent(r, DomConc)
    \/ \E r \in RunIds : StepTechnical(r, DomConc)
    \/ \E r \in RunIds : StepPerformanceSettle(r, DomConc)
    \/ \E r \in RunIds : Recommend(r, DomConc)
    \/ \E r \in RunIds : LLMReturn(r, DomConc)
    \/ \E r \in RunIds : Assemble(r, DomConc)
    \/ \E r \in RunIds : CacheAndReturn(r, DomConc)
    \/ Tick(DomConc)

SpecConc == Init /\ [][NextConc]_vars

----------------------------------------------------------------------------
(* Claims checked under Spec *)

\* The URL has no scheme, or no network location, or does not parse.
UrlLacksPart(url) ==
    \/ Raised(UrlParse[url])
    \/ UrlParse[url].ret.scheme = ""
    \/ UrlParse[url].ret.netloc = ""

\* The call of a run has ended in a computed result or in an exception
\* after it missed the cache.
MissedCache(rn) == rn.cache_reads = 1 /\ ~rn.from_cache

\* C1: a call whose URL lacks a scheme or a network location raises the
\* invalid-input error (ValueError), and it has looked up no cache entry,
\* launched no probe and written no cache entry.
C1_InvalidUrlRejected ==
    \A r \in RunIds :
        (run[r].pc # "idle" /\ UrlLacksPart(run[r].url)) =>
            /\ run[r].pc = "raised"
            /\ run[r].exc = "ValueError"
            /\ run[r].cache_reads = 0
            /\ \A p \in ProbeNames : run[r].launched[p] = 0
            /\ run[r].cache_writes = 0

\* C1 witness: a URL with a scheme and no network location was rejected.
C1_Witness ==
    \E r \in RunIds :
        run[r].pc = "raised" /\ run[r].url = "https://" /\ run[r].exc = "ValueError"

C3_SecondCallServedFromCache ==
    \A r \in RunIds :
        (/\ run[r].pc = "returned"
         /\ run[r].prior # PyNone
         /\ run[r].started - run[r].prior.analysis_date < CacheSeconds) =>
            /\ \A p \in ProbeNames : run[r].launched[p] = 0
            /\ run[r].result.analysis_date = run[r].prior.analysis_date

\* C4: a run that missed the cache and has gone past the gather (it is in or
\* after recommendation generation or score computation, or has raised) has
\* all four probes settled, each launched; recommendation generation started
\* with the four settled. Failed probes are among them.
C4_Barrier ==
    \A r \in RunIds :
        (MissedCache(run[r]) /\ run[r].pc # "gather") =>
            /\ \A p \in ProbeNames :
                  run[r].pst[p] = "settled" /\ run[r].launched[p] = 1
            /\ run[r].recs_calls > 0 => run[r].settled_at_recs = ProbeNames

\* C4 witness: recommendation generation has started in a run whose SEO
\* probe failed, and the three sibling probes have settled.
C4_Witness ==
    \E r \in RunIds :
        /\ run[r].recs_calls = 1
        /\ run[r].faulted["seo"]
        /\ ~run[r].faulted["content"]
        /\ ~run[r].faulted["technical"]
        /\ \A p \in ProbeNames : run[r].pst[p] = "settled"

C6_OncePerCall ==
    \A r \in RunIds :
        /\ (MissedCache(run[r]) /\ run[r].pc \in {"returned", "raised"}) =>
              /\ \A p \in ProbeNames : run[r].launched[p] = 1
              /\ run[r].cache_writes = 1
        /\ run[r].cache_writes > 0 => run[r].result # PyNone

\* C7 (as claimed): the four scores of a returned result are in 0..100.
C7_ScoresInRange ==
    \A r \in RunIds :
        run[r].pc = "returned" =>
            /\ run[r].result.seo_score \in 0..100
            /\ run[r].result.performance_score \in 0..100
            /\ run[r].result.accessibility_score \in 0..100
            /\ run[r].result.best_practices_score \in 0..100

AllScoresZero(result) ==
    /\ result.seo_score = 0
    /\ result.performance_score = 0
    /\ result.accessibility_score = 0
    /\ result.best_practices_score = 0

\* C8: in an assembled result, if a fault occurred inside the Performance
\* probe (no API key, transport fault, non-200 status, unreadable body) or
\* its result carries 'error', the four scores are 0.
C8_PerformanceFailedScoresZero ==
    \A r \in RunIds :
        (/\ run[r].pc \in {"assembled", "returned"}
         /\ MissedCache(run[r])
         /\ \/ run[r].faulted["performance"]
            \/ Has(run[r].result.performance_analysis, "error")) =>
            AllScoresZero(run[r].result)

\* C8 witness: a result was returned after the service answered with a
\* non-200 status while the three other probes succeeded.
C8_Witness ==
    \E r \in RunIds :
        /\ run[r].pc = "returned"
        /\ run[r].result.performance_analysis = [error |-> "PageSpeed API returned status"]
        /\ ~run[r].faulted["seo"]
        /\ ~run[r].faulted["content"]
        /\ ~run[r].faulted["technical"]
        /\ AllScoresZero(run[r].result)

\* title.lower().strip() of the entry, '' when it has no title.
TitleKey(rec) == NormTitle(Get(rec, "title", ""))

\* C9: the recommendation list of a returned result has at most 3 entries
\* and no two of them have titles equal after lower-casing and trimming,
\* whether the list came from the LLM or from the deterministic path.
C9_AtMostThreeUnique ==
    \A r \in RunIds :
        run[r].pc = "returned" =>
            LET recs == run[r].result.recommendations
            IN  /\ Len(recs) <= 3
                /\ \A i, j \in 1..Len(recs) :
                      i # j => TitleKey(recs[i]) # TitleKey(recs[j])

\* C9 witness: a result was returned with three entries taken from the
\* LLM's array, the first with a title that is not trimmed.
C9_Witness ==
    \E r \in RunIds :
        /\ run[r].pc = "returned"
        /\ run[r].llm_calls = 1
        /\ run[r].result.recommendations = <<RecB, RecC, RecE>>

\* C10 (as claimed): a returned result whose Performance analysis carries
\* 'error' has exactly the one recommendation "PageSpeed Analysis
\* Unavailable" of impact High.
C10_UnavailableOnly ==
    \A r \in RunIds :
        (run[r].pc = "returned" /\ Has(run[r].result.performance_analysis, "error")) =>
            /\ Len(run[r].result.recommendations) = 1
            /\ run[r].result.recommendations[1].title = "PageSpeed Analysis Unavailable"
            /\ run[r].result.recommendations[1].impact = "High"

\* The outcome of the deterministic path on the four results of a run.
BasicOf(rn) ==
    _generate_basic_recommendations(rn.out["seo"].ret, rn.out["performance"].ret,
                                    rn.out["content"].ret, rn.out["technical"].ret)

\* C11: without an LLM credential no LLM call is made in any run, and a run
\* whose recommendation generation has run holds the outcome of the
\* deterministic path: its list, or its exception raised to the caller.
C11_NoKeyNoLLM ==
    \A r \in RunIds :
        ~openai_api_key =>
            /\ run[r].llm_calls = 0
            /\ run[r].pc # "llm"
            /\ run[r].recs_calls = 1 =>
                  IF Raised(BasicOf(run[r]))
                  THEN run[r].pc = "raised" /\ run[r].exc = BasicOf(run[r]).exc
                  ELSE /\ run[r].pc \in {"recommended", "assembled", "returned"}
                       /\ run[r].recommendations = BasicOf(run[r]).ret

\* C11 witness: without a credential a result was returned with the three
\* recommendations of the deterministic path and no LLM call.
C11_Witness ==
    \E r \in RunIds :
        /\ ~openai_api_key
        /\ run[r].pc = "returned"
        /\ run[r].llm_calls = 0
        /\ ~Has(run[r].result.performance_analysis, "error")
        /\ Len(run[r].result.recommendations) = 3
        /\ run[r].result.recommendations[1].title = "Improve Your Page Title"

\* The LLM call of the run has ended and recommendation generation with it.
LLMDone(rn) == rn.llm_seen # PyNone

\* The text of the response is not JSON as json.loads receives it.
Unparsable(llm) == ~llm.fault /\ Raised(JsonLoads(llm.text))

\* The text parses to a value that is not an array.
ParsedNonArray(llm) ==
    ~llm.fault /\ ~Raised(JsonLoads(llm.text)) /\ llm.text.json # "array"

\* The run holds the list of the deterministic path.
HoldsFallback(rn) ==
    /\ rn.pc \in {"recommended", "assembled", "returned"}
    /\ ~Raised(BasicOf(rn))
    /\ rn.recommendations = BasicOf(rn).ret

\* C12 (as claimed): the LLM is called at most once in a run, and after a
\* transport fault, a text that is not JSON, or a text that parses to a
\* non-array, the run holds the deterministic path's list.
C12_ThreeOutcomesFallBack ==
    \A r \in RunIds :
        /\ run[r].llm_calls <= 1
        /\ (LLMDone(run[r]) /\ (\/ run[r].llm_seen.fault
                                \/ Unparsable(run[r].llm_seen)
                                \/ ParsedNonArray(run[r].llm_seen))) =>
              HoldsFallback(run[r])

\* C12 (amended): the LLM is called at most once in a run; after a transport
\* fault or a text that is not JSON the run holds the deterministic path's
\* list; after a text that parses to a non-array the run holds the list of
\* that one value, or the empty list when the value is empty.
C12_FaultAndBadJsonFallBack ==
    \A r \in RunIds :
        /\ run[r].llm_calls <= 1
        /\ (LLMDone(run[r]) /\ (run[r].llm_seen.fault \/ Unparsable(run[r].llm_seen))) =>
              HoldsFallback(run[r])
        /\ (LLMDone(run[r]) /\ ParsedNonArray(run[r].llm_seen)) =>
              /\ run[r].pc \in {"recommended", "assembled", "returned"}
              /\ run[r].recommendations =
                    IF run[r].llm_seen.text.value = EmptyDict THEN <<>>
                    ELSE <<run[r].llm_seen.text.value>>

\* C12 witness: a result was returned after the one LLM call failed, with
\* three recommendations of the deterministic path.
C12_Witness ==
    \E r \in RunIds :
        /\ run[r].pc = "returned"
        /\ run[r].llm_calls = 1
        /\ run[r].llm_seen = LLMFault
        /\ Len(run[r].result.recommendations) = 3
        /\ run[r].result.recommendations = BasicOf(run[r]).ret

\* C13 (as claimed): recommendation generation never ends a run with an
\* exception: a run in which it has started and the scores of lines 82-85
\* have not been reached has not raised.
C13_EngineNeverRaises ==
    \A r \in RunIds :
        (run[r].recs_calls > 0 /\ run[r].score_calls = 0) => run[r].pc # "raised"

FractionOf(performance_analysis, key) ==
    Get(Get(Get(performance_analysis, "scores", EmptyDict), key, EmptyDict),
        "score", PyNum(0)).milli

\* fraction * 100 rounded to the nearest integer, for a fraction of m
\* thousandths.
RoundTimes100(m) == (m + 5) \div 10

\* C15 (as claimed): in a result computed from a Performance result without
\* 'error', each of the four scores is its category's fraction times 100
\* rounded to the nearest integer.
C15_ScoresRounded ==
    \A r \in RunIds :
        (/\ run[r].pc \in {"assembled", "returned"}
         /\ MissedCache(run[r])
         /\ ~Has(run[r].result.performance_analysis, "error")) =>
            LET pa == run[r].result.performance_analysis
            IN  /\ run[r].result.seo_score = RoundTimes100(FractionOf(pa, "seo"))
                /\ run[r].result.performance_score =
                      RoundTimes100(FractionOf(pa, "performance"))
                /\ run[r].result.accessibility_score =
                      RoundTimes100(FractionOf(pa, "accessibility"))
                /\ run[r].result.best_practices_score =
                      RoundTimes100(FractionOf(pa, "best-practices"))

\* The score of the category a recommendation names, in a result; 0 for a
\* name that is none of the four.
ScoreOfCategory(result, category) ==
    CASE category = "SEO" -> result.seo_score
      [] category = "Performance" -> result.performance_score
      [] category = "Accessibility" -> result.accessibility_score
      [] category = "Best Practices" -> result.best_practices_score
      [] OTHER -> 0

ScoredCategories == {"SEO", "Performance", "Accessibility", "Best Practices"}

\* C16 (as claimed): in a returned result whose recommendations are the
\* items of an array of the LLM, if some score is below 90 then no
\* recommendation names one of the four categories with a score of 90 or
\* above.
C16_OnlyWeakCategoriesFromLLM ==
    \A r \in RunIds :
        (/\ run[r].pc = "returned"
         /\ LLMDone(run[r])
         /\ ~run[r].llm_seen.fault
         /\ ~Raised(JsonLoads(run[r].llm_seen.text))
         /\ run[r].llm_seen.text.json = "array"
         /\ run[r].result.recommendations # BasicOf(run[r]).ret
         /\ \E c \in ScoredCategories : ScoreOfCategory(run[r].result, c) < 90) =>
            \A i \in 1..Len(run[r].result.recommendations) :
                LET rec == run[r].result.recommendations[i]
                IN  Get(rec, "category", "") \in ScoredCategories =>
                        ScoreOfCategory(run[r].result, Get(rec, "category", "")) < 90

----------------------------------------------------------------------------
(* Claims about the deterministic path, checked under SpecFallback *)

\* The run holds a list that the deterministic path produced: no credential,
\* or the LLM call failed or returned text that is not JSON.
FallbackRun(rn) ==
    /\ rn.pc \in {"recommended", "assembled", "returned"}
    /\ MissedCache(rn)
    /\ \/ ~openai_api_key
       \/ LLMDone(rn) /\ (rn.llm_seen.fault \/ Unparsable(rn.llm_seen))

\* The four scores as lines 844-847 compute them for the run.
RunScores(rn) == FourScores(rn.out["performance"].ret).ret

\* The score of a category among the four.
CatScore(four, category) ==
    CASE category = "SEO" -> four.seo
      [] category = "Performance" -> four.performance
      [] category = "Accessibility" -> four.accessibility
      [] category = "Best Practices" -> four.best_practices

\* Position of a category in the enumeration of lines 850-855.
EnumIndex(category) ==
    CASE category = "SEO" -> 1
      [] category = "Performance" -> 2
      [] category = "Accessibility" -> 3
      [] category = "Best Practices" -> 4

\* Category c comes before category d: lower score, or equal score and
\* earlier in the enumeration.
ComesBefore(four, c, d) ==
    \/ CatScore(four, c) < CatScore(four, d)
    \/ CatScore(four, c) = CatScore(four, d) /\ EnumIndex(c) < EnumIndex(d)

WeakCategories(four) == {c \in ScoredCategories : CatScore(four, c) < 90}

\* The weak areas the loop of line 862 visits: the three that come first.
VisitedCategories(four) ==
    LET weak == WeakCategories(four)
    IN  {c \in weak : Cardinality({d \in weak : ComesBefore(four, d, c)}) < 3}

Min(a, b) == IF a <= b THEN a ELSE b

PerformanceOk(rn) == ~Has(rn.out["performance"].ret, "error")

RecsOfCategory(rn, c) ==
    {i \in 1..Len(rn.recommendations) : rn.recommendations[i].category = c}

\* C17 (as claimed): a list of the deterministic path computed from a
\* Performance result without 'error' has exactly min(3, number of
\* categories with score < 90) entries.
C17_OnePerWeakArea ==
    \A r \in RunIds :
        (FallbackRun(run[r]) /\ PerformanceOk(run[r])) =>
            Len(run[r].recommendations) = Min(3, Cardinality(WeakCategories(RunScores(run[r]))))

\* C17 (amended): in such a list every entry belongs to a visited weak
\* area, no area has two entries, a visited Accessibility or Best Practices
\* area has one entry; hence there are at most min(3, number of weak
\* categories) entries.
C17_AtMostOnePerWeakArea ==
    \A r \in RunIds :
        (FallbackRun(run[r]) /\ PerformanceOk(run[r])) =>
            LET four    == RunScores(run[r])
                visited == VisitedCategories(four)
            IN  /\ \A i \in 1..Len(run[r].recommendations) :
                      run[r].recommendations[i].category \in visited
                /\ \A c \in ScoredCategories :
                      Cardinality(RecsOfCategory(run[r], c)) <= 1
                /\ \A c \in visited \cap {"Accessibility", "Best Practices"} :
                      Cardinality(RecsOfCategory(run[r], c)) = 1
                /\ Len(run[r].recommendations) <=
                      Min(3, Cardinality(WeakCategories(four)))

\* C17 witness: SEO, Performance and Accessibility are weak and visited,
\* the SEO findings and the Performance findings match no test, and the
\* list holds the Accessibility entry alone.
C17_Witness ==
    \E r \in RunIds :
        /\ FallbackRun(run[r])
        /\ PerformanceOk(run[r])
        /\ VisitedCategories(RunScores(run[r])) = {"SEO", "Performance", "Accessibility"}
        /\ Len(run[r].recommendations) = 1
        /\ run[r].recommendations[1].title = "Improve Website Accessibility"

\* C18: the entries of a list of the deterministic path are in ascending
\* order of their category's score, entries of categories with equal scores
\* in the order SEO, Performance, Accessibility, Best Practices.
C18_AscendingByScore ==
    \A r \in RunIds :
        FallbackRun(run[r]) =>
            LET four == RunScores(run[r])
            IN  \A i, j \in 1..Len(run[r].recommendations) :
                    i < j => ComesBefore(four, run[r].recommendations[i].category,
                                         run[r].recommendations[j].category)

\* C18 witness: Best Practices scores 28 and SEO and Performance score 75
\* each; the list is Best Practices, SEO, Performance.
C18_Witness ==
    \E r \in RunIds :
        /\ FallbackRun(run[r])
        /\ PerformanceOk(run[r])
        /\ CatScore(RunScores(run[r]), "Best Practices") = 28
        /\ CatScore(RunScores(run[r]), "SEO") = 75
        /\ CatScore(RunScores(run[r]), "Performance") = 75
        /\ Len(run[r].recommendations) = 3
        /\ run[r].recommendations[1].category = "Best Practices"
        /\ run[r].recommendations[2].category = "SEO"
        /\ run[r].recommendations[3].category = "Performance"

\* C19: every entry of a list of the deterministic path belongs to a
\* category whose score is below 90; "Improve Your Page Title" is in the
\* list only if the SEO score is below 90.
C19_OnlyWeakCategories ==
    \A r \in RunIds :
        FallbackRun(run[r]) =>
            LET four == RunScores(run[r])
            IN  \A i \in 1..Len(run[r].recommendations) :
                    /\ CatScore(four, run[r].recommendations[i].category) < 90
                    /\ run[r].recommendations[i].title = "Improve Your Page Title" =>
                          four.seo < 90

\* C19 witness: the SEO score is exactly 90 and the SEO probe's result has
\* no title, the other three categories are weak; the list has three
\* entries, none of them for SEO.
C19_Witness ==
    \E r \in RunIds :
        /\ FallbackRun(run[r])
        /\ PerformanceOk(run[r])
        /\ CatScore(RunScores(run[r]), "SEO") = 90
        /\ run[r].out["seo"].ret = EmptyDict
        /\ Len(run[r].recommendations) = 3
        /\ RecsOfCategory(run[r], "SEO") = {}

\* The LCP value the Performance branch reads, lines 888.
LcpValue(rn) ==
    Get(Get(Get(rn.out["performance"].ret, "core_web_vitals", EmptyDict),
            "lcp", EmptyDict), "value", 0)

HasTitle(rn, title) ==
    \E i \in 1..Len(rn.recommendations) : rn.recommendations[i].title = title

\* C20: when the deterministic path visits the Performance category, an LCP
\* value above 2500 puts the LCP recommendation, of impact High, in the
\* list and not the low-score recommendation; an LCP value of 2500 or less
\* does not put the LCP recommendation in the list.
C20_LcpFirst ==
    \A r \in RunIds :
        (FallbackRun(run[r]) /\ "Performance" \in VisitedCategories(RunScores(run[r]))) =>
            /\ LcpValue(run[r]) > 2500 =>
                  /\ \E i \in 1..Len(run[r].recommendations) :
                        run[r].recommendations[i] =
                            Rec("Performance", "Speed Up Your Website Loading", "High")
                  /\ ~HasTitle(run[r], "Improve Your Website Speed")
            /\ LcpValue(run[r]) <= 2500 =>
                  ~HasTitle(run[r], "Speed Up Your Website Loading")

\* C20 witness: the Performance fraction is 0.29 and the LCP value 2501;
\* the list holds the LCP recommendation.
C20_Witness ==
    \E r \in RunIds :
        /\ FallbackRun(run[r])
        /\ PerformanceOk(run[r])
        /\ CatScore(RunScores(run[r]), "Performance") = 28
        /\ LcpValue(run[r]) = 2501
        /\ HasTitle(run[r], "Speed Up Your Website Loading")

\* The four scores are all 90 or above.
AllStrong(four) ==
    four.seo >= 90 /\ four.performance >= 90 /\ four.accessibility >= 90
        /\ four.best_practices >= 90

\* C21 (as claimed): among the results the probes can return there are SEO,
\* Performance and Technical results such that the four scores are all 90 or
\* above and the list of the deterministic path is not empty.
C21_StrongSiteGetsGeneralAdvice ==
    \E u \in DomFallback.urls, fs \in DomFallback.seo,
       ft \in DomFallback.technical, psi \in DomFallback.psi :
        LET seo_analysis == _analyze_seo(u, fs).ret
            performance_analysis == _analyze_performance(u, TRUE, psi).ret
            technical_analysis == _analyze_technical(u, ft).ret
            four == FourScores(performance_analysis)
        IN  /\ ~Raised(four)
            /\ AllStrong(four.ret)
            /\ _generate_basic_recommendations(seo_analysis, performance_analysis,
                    EmptyDict, technical_analysis).ret # <<>>

\* C27 (as claimed): a list of the deterministic path holds "Enable Secure
\* Connection (HTTPS)" only in a run whose URL does not start with https://.
C27_HttpsAdviceOnlyForHttp ==
    \A r \in RunIds :
        (FallbackRun(run[r]) /\ HasTitle(run[r], "Enable Secure Connection (HTTPS)")) =>
            ~StartsWithHttps(run[r].url)

----------------------------------------------------------------------------
(* Claims about overlapping calls, checked under SpecConc *)

\* The run has computed its result (it was not served from the cache).
Computed(rn) == rn.pc \in {"assembled", "returned"} /\ MissedCache(rn)

ScoresOf(result) ==
    <<result.seo_score, result.performance_score,
      result.accessibility_score, result.best_practices_score>>

\* C22: two runs whose Performance probes returned equal results have equal
\* category scores, whatever their SEO, Content and Technical probes
\* returned.
C22_ScoresFromPerformanceOnly ==
    \A r1, r2 \in RunIds :
        (/\ Computed(run[r1])
         /\ Computed(run[r2])
         /\ run[r1].out["performance"] = run[r2].out["performance"]) =>
            ScoresOf(run[r1].result) = ScoresOf(run[r2].result)

\* C22 witness: two runs with the same successful Performance result, one
\* with the SEO, Content and Technical probes failed and one with the three
\* succeeded, hold the same scores.
C22_Witness ==
    /\ Computed(run[1])
    /\ Computed(run[2])
    /\ run[1].out["performance"] = run[2].out["performance"]
    /\ PerformanceOk(run[1])
    /\ \A p \in {"seo", "content", "technical"} :
          run[1].faulted[p] /\ ~run[2].faulted[p]
    /\ ScoresOf(run[1].result) = <<89, 28, 90, 95>>
    /\ ScoresOf(run[2].result) = <<89, 28, 90, 95>>

----------------------------------------------------------------------------
(* The freshness boundary, checked under SpecStore *)

\* Age, at the start of the call, of the entry its cache lookup yielded.
LookedUpAge(rn) == rn.started - rn.looked_up.analysis_date

----------------------------------------------------------------------------
(* The de-duplication of the LLM's array, checked under SpecDedup *)

\* The run holds the list made from an array that json.loads parsed.
FromArray(rn) ==
    /\ rn.pc \in {"recommended", "assembled", "returned"}
    /\ LLMDone(rn)
    /\ ~rn.llm_seen.fault
    /\ ~Raised(JsonLoads(rn.llm_seen.text))
    /\ rn.llm_seen.text.json = "array"

AllObjects(a) == \A i \in 1..Len(a) : IsDict(a[i])

\* Indices whose title key differs from that of every earlier entry.
FirstOccurrences(a) ==
    {i \in 1..Len(a) : \A j \in 1..(i - 1) : TitleKey(a[j]) # TitleKey(a[i])}

\* The first occurrences whose title key is not empty.
Survivors(a) == {i \in FirstOccurrences(a) : TitleKey(a[i]) # ""}

\* The entries of a at the three smallest indices of S, in index order.
FirstThree(a, S) ==
    [k \in 1..Min(3, Cardinality(S)) |->
        a[CHOOSE i \in S : Cardinality({j \in S : j < i}) = k - 1]]

\* C25 (as claimed): the list made from a parsed array of objects is the
\* array without the entries whose trimmed, lower-cased title equals that of
\* an earlier entry, cut to its first three entries.
C25_DedupByTitleOnly ==
    \A r \in RunIds :
        (FromArray(run[r]) /\ AllObjects(run[r].llm_seen.text.value)) =>
            LET a == run[r].llm_seen.text.value
            IN  run[r].recommendations = FirstThree(a, FirstOccurrences(a))

\* C25 (amended): the list made from a parsed array of objects is the array
\* without the entries whose title is missing, empty or blank and without
\* the entries whose trimmed, lower-cased title equals that of an earlier
\* entry, in the original order, cut to its first three entries.
C25_DedupDropsUntitled ==
    \A r \in RunIds :
        (FromArray(run[r]) /\ AllObjects(run[r].llm_seen.text.value)) =>
            LET a == run[r].llm_seen.text.value
            IN  run[r].recommendations = FirstThree(a, Survivors(a))

\* C25 witness: from an array with a blank title first and a repeated title,
\* the blank entry and the repetition are gone.
C25_Witness ==
    \E r \in RunIds :
        /\ FromArray(run[r])
        /\ run[r].llm_seen.text.value = <<RecBlank, RecA, RecB, RecC>>
        /\ run[r].recommendations = <<RecA, RecC>>

----------------------------------------------------------------------------
(* The scheduling of the probes, checked under Spec *)

\* The probe performs a network fetch: the three page probes always, the
\* Performance probe when the PageSpeed key is set.
Fetches(p) == p # "performance" \/ pagespeed_api_key

\* C26 (as claimed): the network fetch of each probe is a suspension point:
\* a probe that fetches leaves the pending state by going in flight, where
\* the other probes can run before it settles.
C26_FetchIsSuspensionPoint ==
    [][\A r \in RunIds : \A p \in ProbeNames :
          (/\ run[r].pst[p] = "pending"
           /\ run'[r].pst[p] # "pending"
           /\ run'[r].pc = "gather"
           /\ Fetches(p)) =>
              run'[r].pst[p] = "inflight"]_vars

====
